---- MODULE Spec2Model ----
(***************************************************************************)
(* Workbench action registry of src/vs/workbench/common/actions.ts:        *)
(* registerWorkbenchAction (the registrar) and the command handler built   *)
(* by _createCommandHandler / _triggerAndDisposeAction (the invoker).      *)
(*                                                                         *)
(* The command table, the keybinding rule table, the menu/command-title    *)
(* table and combinedDisposable are external collaborators (vs/platform,   *)
(* vs/base); they are modelled from their documented boundary contracts.   *)
(* TPromise is the WinJS promise: a continuation attached to an already    *)
(* completed promise runs synchronously, and completing a promise runs     *)
(* its continuations in the order they were attached.                      *)
(***************************************************************************)
EXTENDS Integers, Sequences, FiniteSets

VARIABLES
    commands,        \* CommandsRegistry: set of [id, reg], reg the registering call
    keybindingRules, \* KeybindingsRegistry: sequence of the rules installed
    commandTitles,   \* MenuRegistry commands: set of [id, value, original, category]
    paletteItems,    \* MenuRegistry items of MenuId.CommandPalette: set of [id, reg]
    handles,         \* per register call that registered its command: its handle
    registerResult,  \* how the last register call ended
    gate,            \* the promise of partService.joinCreation()
    invocations      \* one record per call of a command handler

vars == <<commands, keybindingRules, commandTitles, paletteItems, handles,
          registerResult, gate, invocations>>

----------------------------------------------------------------------------
(* Bounds of the model *)

MaxRegisterCalls == 2
MaxInvocations == 2

----------------------------------------------------------------------------
(* Inputs *)

Ids == {"a", "b"}
Labels == {"", "Label"}           \* "" is the empty or absent label
Aliases == {"Alias"}
Categories == {"View"}
\* an optional field is a sequence: <<>> when undefined, <<v>> when it is v
Weights == {<<>>, <<0>>}
Keybindings ==
    {<<>>, <<[primary |-> "Ctrl+K", secondary |-> "undefined", win |-> "undefined",
              mac |-> "Cmd+K", linux |-> "undefined"]>>}
Contexts == {<<>>, <<"ctx">>}
Descriptors ==
    [id : Ids, label : Labels, keybindingWeight : Weights,
     keybindings : Keybindings, keybindingContext : Contexts]

\* the caller-supplied arguments of a handler call: absent, without from, with from
ArgsSet == {<<>>, <<"">>, <<"menu">>}
Errors == {"e1", "e2"}
OwnLabel == "own"

----------------------------------------------------------------------------
(* Registrar: registerWorkbenchAction *)

CommandExists(cmds, id) == \E c \in cmds : c.id = id

\* CommandsRegistry.registerCommand(id, handler): the new entry of the table
registerCommand(cmds, id, reg) == cmds \cup {[id |-> id, reg |-> reg]}

\* KeybindingsRegistry.WEIGHT.workbenchContrib()
WorkbenchContrib == 200

\* keybindings && keybindings.<field>
Chord(keybindings, field) ==
    IF keybindings = <<>> THEN "undefined" ELSE keybindings[1][field]

\* mutant: the weight is defaulted with ||, which also replaces 0
KeybindingRuleFalsyWeight(d) ==
    [id        |-> d.id,
     weight    |-> IF d.keybindingWeight = <<>> \/ d.keybindingWeight = <<0>>
                   THEN WorkbenchContrib ELSE d.keybindingWeight[1],
     when      |-> d.keybindingContext,
     primary   |-> Chord(d.keybindings, "primary"),
     secondary |-> Chord(d.keybindings, "secondary"),
     win       |-> Chord(d.keybindings, "win"),
     mac       |-> Chord(d.keybindings, "mac"),
     linux     |-> Chord(d.keybindings, "linux")]

\* the rule object built for KeybindingsRegistry.registerKeybindingRule
KeybindingRule(d) ==
    [id        |-> d.id,
     weight    |-> IF d.keybindingWeight = <<>> THEN WorkbenchContrib
                   ELSE d.keybindingWeight[1],
     when      |-> d.keybindingContext,
     primary   |-> Chord(d.keybindings, "primary"),
     secondary |-> Chord(d.keybindings, "secondary"),
     win       |-> Chord(d.keybindings, "win"),
     mac       |-> Chord(d.keybindings, "mac"),
     linux     |-> Chord(d.keybindings, "linux")]

\* KeybindingsRegistry.registerKeybindingRule(rule): no removal
registerKeybindingRule(rules, rule) == Append(rules, rule)

\* mutant: the label is not looked at
HasLabelAlways(d) == TRUE

\* the menu item is contributed only for a descriptor with a label
HasLabel(d) == d.label # ""

\* the command object published to the menu registry
Command(d, alias, category) ==
    [id |-> d.id, value |-> d.label, original |-> alias, category |-> category]

\* MenuRegistry.addCommand(command): one title per command id
addCommand(titles, command) ==
    {t \in titles : t.id # command.id} \cup {command}

\* MenuRegistry.appendMenuItem(MenuId.CommandPalette, {command})
appendMenuItem(items, id, reg) == items \cup {[id |-> id, reg |-> reg]}

\* mutant: the menu item's registration is not kept
RegistrationsCommandOnly(d) == {"command"}

\* mutant: the command's registration is not kept
RegistrationsMenuOnly(d) == IF d.label # "" THEN {"menuItem"} ELSE {}

\* mutant: the handle also covers the keybinding rule
RegistrationsWithRule(d) ==
    {"command", "keybindingRule"} \cup (IF d.label # "" THEN {"menuItem"} ELSE {})

\* the registrations pushed to the array handed to combinedDisposable
Registrations(d) ==
    {"command"} \cup (IF HasLabel(d) THEN {"menuItem"} ELSE {})

\* combinedDisposable(registrations).dispose(): each registration removes the
\* entry it added
disposeCommands(cmds, h, regs) ==
    IF "command" \in regs THEN {c \in cmds : c.reg # h} ELSE cmds

disposeMenuItems(items, h, regs) ==
    IF "menuItem" \in regs THEN {m \in items : m.reg # h} ELSE items

\* registerKeybindingRule returns nothing to dispose: a rule goes only if a
\* registration of it had been combined into the handle
disposeKeybindingRules(rules, id, regs) ==
    IF "keybindingRule" \in regs THEN SelectSeq(rules, LAMBDA r : r.id # id)
    ELSE rules

\* the call of a registry that an input makes throw ("none": none throws)
RegisterFaults == {"none", "registerKeybindingRule", "addCommand", "appendMenuItem"}

\* the registries as one record, with how the register call ended
Tables ==
    [commands |-> commands, rules |-> keybindingRules, titles |-> commandTitles,
     items |-> paletteItems, result |-> registerResult]

\* mutant: what the call had done is undone before the exception leaves
PropagateRollback(before, now, e) == [before EXCEPT !.result = e]

\* an exception leaves _registerWorkbenchCommandFromAction, which catches
\* nothing: the registries stay as they are at the throw
Propagate(before, now, e) == [now EXCEPT !.result = e]

\* the keybinding rule and the menu item, once the command is registered
afterRegisterCommand(t0, t1, d, alias, category, reg, fault) ==
    LET t2 == [t1 EXCEPT !.rules = registerKeybindingRule(@, KeybindingRule(d))]
        t3 == [t2 EXCEPT !.titles = addCommand(@, Command(d, alias, category))]
        t4 == [t3 EXCEPT !.items = appendMenuItem(@, d.id, reg)]
    IN IF fault = "registerKeybindingRule"
       THEN Propagate(t0, t1, "registerKeybindingRuleError")
       ELSE IF ~HasLabel(d) THEN [t2 EXCEPT !.result = "returned"]
       ELSE IF fault = "addCommand" THEN Propagate(t0, t2, "addCommandError")
       ELSE IF fault = "appendMenuItem"
       THEN Propagate(t0, t3, "appendMenuItemError")
       ELSE [t4 EXCEPT !.result = "returned"]

\* mutant: the keybinding rule is installed before the command is registered
registerWorkbenchCommandFromActionRuleFirst(t, d, alias, category, reg, fault) ==
    IF CommandExists(t.commands, d.id)
    THEN Propagate(t, [t EXCEPT !.rules =
                          registerKeybindingRule(@, KeybindingRule(d))],
                   "CommandExists")
    ELSE afterRegisterCommand(t, [t EXCEPT !.commands =
                                     registerCommand(@, d.id, reg)],
                              d, alias, category, reg, fault)

\* the registries after _registerWorkbenchCommandFromAction: the command is
\* registered first, and registerCommand throws for an identifier in use
registerWorkbenchCommandFromAction(t, d, alias, category, reg, fault) ==
    IF CommandExists(t.commands, d.id)
    THEN Propagate(t, t, "CommandExists")
    ELSE afterRegisterCommand(t, [t EXCEPT !.commands =
                                     registerCommand(@, d.id, reg)],
                              d, alias, category, reg, fault)

\* one call of registerWorkbenchAction; handles gets a record when the call
\* registered its command, and result tells whether the call returned the
\* handle or threw
registerWorkbenchAction(d, alias, category, fault) ==
    /\ Len(handles) < MaxRegisterCalls
    /\ LET reg == Len(handles) + 1
           out == registerWorkbenchCommandFromAction(Tables, d, alias, category,
                                                     reg, fault)
       IN /\ commands' = out.commands
          /\ keybindingRules' = out.rules
          /\ commandTitles' = out.titles
          /\ paletteItems' = out.items
          /\ registerResult' = out.result
          /\ handles' = IF [id |-> d.id, reg |-> reg] \in out.commands
                        THEN Append(handles,
                                 [d |-> d, registrations |-> Registrations(d),
                                  disposed |-> FALSE, result |-> out.result])
                        ELSE handles
    /\ UNCHANGED <<gate, invocations>>

\* inputs the call does not read on the path it takes are held fixed
Register ==
    \E d \in Descriptors, alias \in Aliases, category \in Categories,
       fault \in RegisterFaults :
        /\ CommandExists(commands, d.id) => fault = "none"
        /\ ~HasLabel(d) => fault \in {"none", "registerKeybindingRule"}
        /\ registerWorkbenchAction(d, alias, category, fault)

\* dispose() of the handle a register call returned
DisposeHandle(h) ==
    /\ h \in DOMAIN handles
    /\ handles[h].result = "returned"
    /\ commands' = disposeCommands(commands, h, handles[h].registrations)
    /\ paletteItems' = disposeMenuItems(paletteItems, h, handles[h].registrations)
    /\ keybindingRules' = disposeKeybindingRules(keybindingRules, handles[h].d.id,
                                                  handles[h].registrations)
    /\ handles' = [handles EXCEPT ![h].disposed = TRUE]
    /\ UNCHANGED <<commandTitles, registerResult, gate, invocations>>

Dispose == \E h \in DOMAIN handles : DisposeHandle(h)

----------------------------------------------------------------------------
(* Invoker: the command handler and _triggerAndDisposeAction *)

\* one call observed on a collaborator during an invocation
Ev(op, a, b) == [op |-> op, a |-> a, b |-> b]

Count(log, op) == Cardinality({k \in DOMAIN log : log[k].op = op})

\* the step of an invocation that an input makes throw ("none": no step throws)
ServiceOrder == <<"IMessageService", "IInstantiationService", "IPartService">>
ServiceFaults == {ServiceOrder[k] : k \in 1..3}
Faults == {"none"} \cup ServiceFaults \cup
          {"createInstance", "label", "enabled", "joinCreation"}

\* what actionInstance.run does when called
RunBehaviours ==
    {[kind |-> "returns", err |-> "-"], [kind |-> "pending", err |-> "-"]}
    \cup [kind : {"throws", "rejects"}, err : Errors]

\* the three accessor.get calls, in order, up to the first that throws
ResolveServices(fault) ==
    LET upto == IF fault = ServiceOrder[1] THEN 0
                ELSE IF fault = ServiceOrder[2] THEN 1
                ELSE IF fault = ServiceOrder[3] THEN 2 ELSE 3
    IN [k \in 1..upto |-> Ev("get", ServiceOrder[k], "-")]

\* actionInstance.label = descriptor.label || actionInstance.label
LabelOf(d, own) == IF d.label # "" THEN d.label ELSE own

\* mutant: the origin in the arguments is ignored
FromAlwaysKeybinding(args) == "keybinding"

\* const from = args && args.from || 'keybinding'
From(args) == IF args # <<>> /\ args[1] # "" THEN args[1] ELSE "keybinding"

\* mutant: the gate is not awaited
ResolvedAlways(g) == TRUE

\* the promise of joinCreation() has completed
Resolved(g) == g = "resolved"

\* a synchronous exception leaving the function
Throw(inv, e) == [inv EXCEPT !.outcome = "threw", !.err = e]

\* mutant: the success continuation forgets to dispose
onRunFulfilledLeak(inv) == [inv EXCEPT !.outcome = "fulfilled"]

\* run's promise fulfilled: () => { actionInstance.dispose(); }
onRunFulfilled(inv) ==
    [inv EXCEPT !.log = Append(@, Ev("dispose", "-", "-")),
                !.outcome = "fulfilled"]

\* mutant: the error continuation disposes twice
onRunRejectedTwice(inv, e) ==
    [inv EXCEPT !.log = @ \o <<Ev("dispose", "-", "-"), Ev("dispose", "-", "-")>>,
                !.outcome = "rejected", !.err = e]

\* run's promise rejected: (err) => { dispose(); return wrapError(err); }
onRunRejected(inv, e) ==
    [inv EXCEPT !.log = Append(@, Ev("dispose", "-", "-")),
                !.outcome = "rejected", !.err = e]

\* mutant: the catch block swallows the error
onRunThrownSwallowed(inv, e) ==
    [inv EXCEPT !.log = Append(@, Ev("dispose", "-", "-")),
                !.outcome = "fulfilled"]

\* run threw: catch (err) { dispose(); return wrapError(err); }
onRunThrown(inv, e) ==
    [inv EXCEPT !.log = Append(@, Ev("dispose", "-", "-")),
                !.outcome = "rejected", !.err = e]

\* mutant: the instance is disposed as soon as run has returned its promise
runActionDisposesEarly(inv, run) ==
    LET started == [inv EXCEPT
                        !.log = Append(@, Ev("run", "undefined", inv.from)),
                        !.runKind = run.kind,
                        !.runResult = CASE run.kind = "returns" -> "ok"
                                        [] run.kind = "pending" -> "pending"
                                        [] OTHER -> run.err]
    IN CASE run.kind = "throws"  -> onRunThrown(started, run.err)
         [] run.kind = "returns" -> onRunFulfilled(started)
         [] run.kind = "rejects" -> onRunRejected(started, run.err)
         [] OTHER -> [started EXCEPT !.pc = "running",
                                     !.log = Append(@, Ev("dispose", "-", "-"))]

\* mutant: the continuation reads the enabled flag again before running
runActionRechecks(inv, run) ==
    LET started == [inv EXCEPT
                        !.log = Append(@, Ev("run", "undefined", inv.from)),
                        !.runKind = run.kind,
                        !.runResult = CASE run.kind = "returns" -> "ok"
                                        [] run.kind = "pending" -> "pending"
                                        [] OTHER -> run.err]
    IN CASE inv.enabledNow = "false" ->
                [inv EXCEPT !.log = Append(@, Ev("dispose", "-", "-")),
                            !.outcome = "undefined"]
         [] run.kind = "throws"  -> onRunThrown(started, run.err)
         [] run.kind = "returns" -> onRunFulfilled(started)
         [] run.kind = "rejects" -> onRunRejected(started, run.err)
         [] OTHER                -> [started EXCEPT !.pc = "running"]

\* the continuation of joinCreation(): run the instance, dispose it afterwards
runAction(inv, run) ==
    LET started == [inv EXCEPT
                        !.log = Append(@, Ev("run", "undefined", inv.from)),
                        !.runKind = run.kind,
                        !.runResult = CASE run.kind = "returns" -> "ok"
                                        [] run.kind = "pending" -> "pending"
                                        [] OTHER -> run.err]
    IN CASE run.kind = "throws"  -> onRunThrown(started, run.err)
         [] run.kind = "returns" -> onRunFulfilled(started)
         [] run.kind = "rejects" -> onRunRejected(started, run.err)
         [] OTHER                -> [started EXCEPT !.pc = "running"]

\* partService.joinCreation().then(...): at once when the gate has resolved
joinCreationThen(inv, g, run) ==
    LET joined == [inv EXCEPT !.log = Append(@, Ev("joinCreation", g, "-"))]
    IN IF Resolved(g) THEN runAction(joined, run)
       ELSE [joined EXCEPT !.pc = "awaitingGate"]

\* mutant: the disabled instance is returned without being disposed
notEnabledLeak(inv) == [inv EXCEPT !.outcome = "undefined"]

\* if (!actionInstance.enabled) { actionInstance.dispose(); return void 0; }
notEnabled(inv) ==
    [inv EXCEPT !.log = Append(@, Ev("dispose", "-", "-")),
                !.outcome = "undefined"]

triggerAndDisposeAction(inv, d, args, fault, enabled, g, run) ==
    LET created  == [inv EXCEPT !.log = Append(@, Ev("createInstance", d.id, "-"))]
        labelled == [created EXCEPT !.label = LabelOf(d, OwnLabel)]
        flag     == IF enabled THEN "true" ELSE "false"
        checked  == [labelled EXCEPT !.enabled = flag, !.enabledNow = flag,
                                     !.log = Append(@, Ev("enabled", flag, "-"))]
        origin   == [checked EXCEPT !.from = From(args)]
    IN IF fault = "createInstance" THEN Throw(inv, "createInstanceError")
       ELSE IF fault = "label" THEN Throw(created, "labelError")
       ELSE IF fault = "enabled" THEN Throw(labelled, "enabledError")
       ELSE IF ~enabled THEN notEnabled(checked)
       ELSE IF fault = "joinCreation" THEN Throw(origin, "joinCreationError")
       ELSE joinCreationThen(origin, g, run)

\* TPromise.as(result).done(null, err => messageService.show(Severity.Error, err))
done(inv) ==
    CASE inv.outcome = "rejected" ->
             [inv EXCEPT !.log = Append(@, Ev("show", "Error", inv.err)),
                         !.pc = "done"]
      [] inv.outcome \in {"undefined", "fulfilled"} -> [inv EXCEPT !.pc = "done"]
      [] inv.outcome = "threw" -> [inv EXCEPT !.pc = "escaped"]
      [] OTHER -> inv

NewInvocation ==
    [pc |-> "called", args |-> <<>>, label |-> "-", enabled |-> "-",
     enabledNow |-> "-", from |-> "-", log |-> <<>>, runKind |-> "-", runResult |-> "-",
     outcome |-> "-", err |-> "-"]

\* mutant: a service that cannot be resolved is reported like a failed run
createCommandHandlerShowsServiceError(d, args, fault, enabled, g, run) ==
    LET resolved == [NewInvocation EXCEPT !.args = args,
                                          !.log = ResolveServices(fault)]
    IN IF fault \in ServiceFaults
       THEN done([resolved EXCEPT !.outcome = "rejected", !.err = "serviceError"])
       ELSE done(triggerAndDisposeAction(resolved, d, args, fault, enabled, g, run))

\* the handler (accessor, args) => { ... } of the command registered by reg
createCommandHandler(d, args, fault, enabled, g, run) ==
    LET resolved == [NewInvocation EXCEPT !.args = args,
                                          !.log = ResolveServices(fault)]
    IN IF fault \in ServiceFaults
       THEN [resolved EXCEPT !.outcome = "threw", !.err = "serviceError",
                             !.pc = "escaped"]
       ELSE done(triggerAndDisposeAction(resolved, d, args, fault, enabled, g, run))

DefaultRun == [kind |-> "returns", err |-> "-"]

\* a registered command is executed; inputs the handler does not read on the
\* path it takes are held fixed, and the origin in the arguments, which only
\* travels into the context of run, varies with the default run behaviour
Invoke ==
    /\ Len(invocations) < MaxInvocations
    /\ \E c \in commands, args \in ArgsSet, fault \in Faults,
          enabled \in BOOLEAN, run \in RunBehaviours :
        /\ fault \notin {"none", "joinCreation"} => enabled /\ args = <<>>
        /\ ~enabled => args = <<>>
        /\ (fault # "none" \/ ~enabled \/ ~Resolved(gate)) => run = DefaultRun
        /\ args # <<>> => run = DefaultRun
        /\ invocations' = Append(invocations,
               createCommandHandler(handles[c.reg].d, args, fault, enabled,
                                    gate, run))
    /\ UNCHANGED <<commands, keybindingRules, commandTitles, paletteItems,
                   handles, registerResult, gate>>

Awaiting == {i \in DOMAIN invocations : invocations[i].pc = "awaitingGate"}

\* the workbench is created: the gate's promise completes and the continuations
\* attached to it run (as in Invoke, an invocation with an origin in its
\* arguments gets the default run behaviour)
GateResolves ==
    /\ gate = "pending"
    /\ gate' = "resolved"
    /\ \E runs \in [Awaiting -> RunBehaviours] :
        /\ \A i \in Awaiting : invocations[i].args # <<>> => runs[i] = DefaultRun
        /\ invocations' = [i \in DOMAIN invocations |->
            IF i \in Awaiting
            THEN done(runAction([invocations[i] EXCEPT !.pc = "called"], runs[i]))
            ELSE invocations[i]]
    /\ UNCHANGED <<commands, keybindingRules, commandTitles, paletteItems,
                   handles, registerResult>>

\* the promise a run call returned completes
RunSettles(i, res) ==
    /\ i \in DOMAIN invocations
    /\ invocations[i].pc = "running"
    /\ LET settled == [invocations[i] EXCEPT !.runResult = res]
       IN invocations' = [invocations EXCEPT ![i] =
              done(IF res = "ok" THEN onRunFulfilled(settled)
                   ELSE onRunRejected(settled, res))]
    /\ UNCHANGED <<commands, keybindingRules, commandTitles, paletteItems,
                   handles, registerResult, gate>>

Settle == \E i \in DOMAIN invocations, res \in {"ok"} \cup Errors : RunSettles(i, res)

\* the instance of a suspended invocation changes its own enabled property
EnabledChanges ==
    /\ \E i \in Awaiting, flag \in {"true", "false"} :
        /\ invocations[i].enabledNow # flag
        /\ invocations' = [invocations EXCEPT ![i].enabledNow = flag]
    /\ UNCHANGED <<commands, keybindingRules, commandTitles, paletteItems,
                   handles, registerResult, gate>>

----------------------------------------------------------------------------

Init ==
    /\ commands = {}
    /\ keybindingRules = <<>>
    /\ commandTitles = {}
    /\ paletteItems = {}
    /\ handles = <<>>
    /\ registerResult = "none"
    /\ gate = "pending"
    /\ invocations = <<>>

NextRegistrar == Register \/ Dispose

NextInvoker == Invoke \/ GateResolves \/ Settle \/ EnabledChanges

Next == NextRegistrar \/ NextInvoker

\* The whole registry.  The invoker reads the registries only to find the
\* handler of a registered command, so the properties of the registrar and of
\* the invoker are stated under the two specifications below, each with its own
\* part of Next.
Spec == Init /\ [][Next]_vars

\* The registrar alone: contribution time, before any command is executed.
RegistrarSpec == Init /\ [][NextRegistrar]_vars

\* The descriptors contributed at startup in the invoker's specifications: one
\* with a label, one without.
StartupDescriptors ==
    <<[id |-> "a", label |-> "Label", keybindingWeight |-> <<>>,
       keybindings |-> <<>>, keybindingContext |-> <<>>],
      [id |-> "b", label |-> "", keybindingWeight |-> <<>>,
       keybindings |-> <<>>, keybindingContext |-> <<>>]>>

\* The state after registerWorkbenchAction was called for each startup
\* descriptor, before the workbench is created.
InvokerInit ==
    LET d1 == StartupDescriptors[1]
        d2 == StartupDescriptors[2]
    IN
    /\ commands = registerCommand(registerCommand({}, d1.id, 1), d2.id, 2)
    /\ keybindingRules = registerKeybindingRule(
           registerKeybindingRule(<<>>, KeybindingRule(d1)), KeybindingRule(d2))
    /\ commandTitles = addCommand({}, Command(d1, "Alias", "View"))
    /\ paletteItems = appendMenuItem({}, d1.id, 1)
    /\ handles = <<[d |-> d1, registrations |-> Registrations(d1),
                    disposed |-> FALSE, result |-> "returned"],
                   [d |-> d2, registrations |-> Registrations(d2),
                    disposed |-> FALSE, result |-> "returned"]>>
    /\ registerResult = "returned"
    /\ gate = "pending"
    /\ invocations = <<>>

\* The invoker alone: commands are executed while the registries stay as they
\* were after startup (the handler reads no registry).
InvokerSpec == InvokerInit /\ [][NextInvoker]_vars

\* The gate resolves once the workbench is created, and a started run completes.
InvokerLive == InvokerSpec /\ WF_vars(GateResolves) /\ WF_vars(Settle)

----------------------------------------------------------------------------
(* Observations on one invocation *)

Disposals(v) == Count(v.log, "dispose")
Runs(v) == Count(v.log, "run")
Shows(v) == SelectSeq(v.log, LAMBDA e : e.op = "show")
Created(v) == Count(v.log, "createInstance") = 1
Position(v, op) == {k \in DOMAIN v.log : v.log[k].op = op}

----------------------------------------------------------------------------
(* Properties of the invoker *)

\* C1: an invocation whose instance is enabled and whose run fails, by a
\* synchronous throw or by its promise failing, has ended with dispose called
\* exactly once and show called exactly once, at error severity, with the
\* failure value of run.
C1_RunFailureDisposedAndShown ==
    \A i \in DOMAIN invocations :
        LET v == invocations[i] IN
        (v.enabled = "true" /\ v.runResult \in Errors) =>
            /\ v.pc = "done"
            /\ Disposals(v) = 1
            /\ Shows(v) = <<Ev("show", "Error", v.runResult)>>

\* both ways of failing have happened: a throw of e1, a late rejection with e2
C1_Witness ==
    \E i, j \in DOMAIN invocations :
        /\ invocations[i].runKind = "throws" /\ invocations[i].runResult = "e1"
        /\ invocations[j].runKind = "pending" /\ invocations[j].runResult = "e2"
        /\ Len(Shows(invocations[i])) = 1 /\ Len(Shows(invocations[j])) = 1

\* C2: an invocation whose instance is enabled and whose run succeeds has ended
\* with dispose called exactly once and show never called.
C2_RunSuccessDisposedSilently ==
    \A i \in DOMAIN invocations :
        LET v == invocations[i] IN
        (v.enabled = "true" /\ v.runResult = "ok") =>
            /\ v.pc = "done"
            /\ Disposals(v) = 1
            /\ Shows(v) = <<>>

C2_Witness ==
    \E i, j \in DOMAIN invocations :
        /\ invocations[i].runKind = "returns" /\ invocations[i].runResult = "ok"
        /\ invocations[j].runKind = "pending" /\ invocations[j].runResult = "ok"
        /\ Disposals(invocations[i]) = 1 /\ Disposals(invocations[j]) = 1

\* C3: an invocation whose instance reports enabled = false has ended, without
\* waiting for the gate, with dispose called exactly once, run never called
\* and show never called.
C3_DisabledDisposedNotRun ==
    \A i \in DOMAIN invocations :
        LET v == invocations[i] IN
        v.enabled = "false" =>
            /\ v.pc = "done"
            /\ Disposals(v) = 1
            /\ Runs(v) = 0
            /\ Shows(v) = <<>>
            /\ Position(v, "joinCreation") = {}

\* a disabled instance was disposed while the gate is still unresolved
C3_Witness ==
    /\ gate = "pending"
    /\ \E i \in DOMAIN invocations :
        invocations[i].enabled = "false" /\ Disposals(invocations[i]) = 1

\* C4: run has been started only when the gate had resolved; while the gate
\* is unresolved an invocation of an enabled instance that reached
\* joinCreation stays suspended without running.
C4_RunOnlyAfterGate ==
    \A i \in DOMAIN invocations :
        LET v == invocations[i] IN
        /\ Runs(v) > 0 => gate = "resolved"
        /\ (gate = "pending" /\ Position(v, "joinCreation") # {}) =>
               v.pc = "awaitingGate" /\ Runs(v) = 0

\* an invocation that joined the unresolved gate has run after it resolved
C4_Witness ==
    \E i \in DOMAIN invocations :
        /\ \E k \in Position(invocations[i], "joinCreation") :
               invocations[i].log[k].a = "pending"
        /\ Runs(invocations[i]) = 1

\* C8: on each instance dispose is called at most once, run is called at most
\* once, and run is not called after dispose.
C8_AtMostOnceAndNoRunAfterDispose ==
    \A i \in DOMAIN invocations :
        LET v == invocations[i] IN
        /\ Disposals(v) <= 1
        /\ Runs(v) <= 1
        /\ \A r \in Position(v, "run"), d \in Position(v, "dispose") : r < d

\* two instances, each run once and then disposed once
C8_Witness ==
    \E i, j \in DOMAIN invocations :
        /\ i # j
        /\ Runs(invocations[i]) = 1 /\ Disposals(invocations[i]) = 1
        /\ Runs(invocations[j]) = 1 /\ Disposals(invocations[j]) = 1

\* C5: under the fairness of InvokerLive (the gate resolves, a started run
\* completes) every invocation that created an instance eventually has it
\* disposed.
C5_EveryInstanceEventuallyDisposed ==
    \A i \in 1..MaxInvocations :
        (i \in DOMAIN invocations /\ Created(invocations[i]))
            ~> (i \in DOMAIN invocations /\ Disposals(invocations[i]) = 1)

StepErrors == {"createInstanceError", "labelError", "enabledError",
               "joinCreationError"}

\* C6: a failure of createInstance, of the label assignment, of the enabled
\* check or of the joinCreation call does not escape the handler call: it is
\* shown on the notification channel.
C6_HandlerNeverThrows ==
    \A i \in DOMAIN invocations :
        LET v == invocations[i] IN
        v.err \in StepErrors =>
            /\ v.pc # "escaped"
            /\ Shows(v) = <<Ev("show", "Error", v.err)>>

\* C7: when a step after createInstance and before run throws, the instance
\* has been disposed when the failure leaves _triggerAndDisposeAction.
C7_NoLeakOnEarlyFailure ==
    \A i \in DOMAIN invocations :
        LET v == invocations[i] IN
        (Created(v) /\ v.outcome = "threw") => Disposals(v) = 1

\* the calls of op over all invocations
Total(op) ==
    Cardinality(UNION {{<<i, k>> : k \in Position(invocations[i], op)} :
                           i \in DOMAIN invocations})

\* C12: an invocation creates at most one instance, which no other invocation
\* uses; show has been called as many times as there are invocations whose run
\* failed, and dispose as many times as there are instances whose invocation
\* has finished.
C12_TotalsMatchInvocations ==
    /\ \A i \in DOMAIN invocations : Count(invocations[i].log, "createInstance") <= 1
    /\ Total("show") =
           Cardinality({i \in DOMAIN invocations : invocations[i].runResult \in Errors})
    /\ Total("dispose") =
           Cardinality({i \in DOMAIN invocations :
                            /\ Created(invocations[i])
                            /\ invocations[i].pc \in {"done", "escaped"}})

\* C13: within an invocation of an enabled instance dispose is called only
\* after run has completed, with success or not, and when run failed dispose
\* is called before the error is shown.
C13_DisposeAfterRunBeforeShow ==
    \A i \in DOMAIN invocations :
        LET v == invocations[i] IN
        /\ v.pc = "running" => Disposals(v) = 0
        /\ (v.enabled = "true" /\ Disposals(v) > 0) =>
               /\ v.runResult \in {"ok"} \cup Errors
               /\ \E r \in Position(v, "run") :
                      \A d \in Position(v, "dispose") : r < d
        /\ \A d \in Position(v, "dispose"), n \in Position(v, "show") : d < n

\* a run that failed late: run, then dispose, then show, while another run is
\* still going on, its instance not disposed
C13_Witness ==
    \E i, j \in DOMAIN invocations :
        /\ invocations[i].runKind = "pending" /\ invocations[i].runResult \in Errors
        /\ \E r \in Position(invocations[i], "run"),
              d \in Position(invocations[i], "dispose"),
              n \in Position(invocations[i], "show") : r < d /\ d < n
        /\ invocations[j].pc = "running" /\ Disposals(invocations[j]) = 0

\* the run calls of invocation v
RunEvents(v) == {v.log[k] : k \in {j \in DOMAIN v.log : v.log[j].op = "run"}}

\* C15: an enabled instance is run with an undefined target and a context
\* whose from is the from of the invocation arguments when the arguments are
\* present and carry one, and 'keybinding' when the arguments or their from
\* are absent.
C15_RunTargetAndOrigin ==
    \A i \in DOMAIN invocations :
        \A e \in RunEvents(invocations[i]) :
            /\ e.a = "undefined"
            /\ LET args == invocations[i].args
               IN IF args = <<>> THEN e.b = "keybinding"
                  ELSE IF args[1] = "" THEN e.b = "keybinding"
                  ELSE e.b = args[1]

\* one instance run from the menu, one run with arguments that carry no from
C15_Witness ==
    \E i, j \in DOMAIN invocations :
        /\ invocations[i].args = <<"menu">>
        /\ Ev("run", "undefined", "menu") \in RunEvents(invocations[i])
        /\ invocations[j].args = <<"">>
        /\ Ev("run", "undefined", "keybinding") \in RunEvents(invocations[j])

\* the services invocation v has resolved from the accessor
ServicesResolved(v) ==
    {v.log[k].a : k \in {j \in DOMAIN v.log : v.log[j].op = "get"}}

\* C17: when one of the three services (message service, instantiation
\* service, part service) cannot be resolved from the accessor, the failure
\* leaves the handler call, no instance is created and nothing is shown; an
\* instance is created only after all three services have been resolved.
C17_ServiceFailureEscapes ==
    \A i \in DOMAIN invocations :
        LET v == invocations[i]
        IN /\ ServicesResolved(v) # ServiceFaults =>
                  /\ v.pc = "escaped" /\ v.outcome = "threw"
                  /\ Count(v.log, "createInstance") = 0
                  /\ Count(v.log, "show") = 0
                  /\ Count(v.log, "dispose") = 0 /\ Count(v.log, "run") = 0
           /\ \A k \in Position(v, "createInstance") :
                  /\ k = 4
                  /\ \A j \in 1..3 : v.log[j] = Ev("get", ServiceOrder[j], "-")

\* one call left by the failure to resolve the second service, next to one
\* that resolved all three and created its instance
C17_Witness ==
    \E i, j \in DOMAIN invocations :
        /\ ServicesResolved(invocations[i]) = {ServiceOrder[1]}
        /\ invocations[i].pc = "escaped"
        /\ ServicesResolved(invocations[j]) = ServiceFaults
        /\ Created(invocations[j])

\* C18: the enabled property is read once per invocation, before
\* joinCreation is called, and not again when the gate resolves: an instance
\* that was enabled when the command was executed has been run once the gate
\* has resolved, even if its enabled property became false in between.
C18_EnabledReadOnceBeforeGate ==
    \A i \in DOMAIN invocations :
        LET v == invocations[i]
        IN /\ Count(v.log, "enabled") <= 1
           /\ \A k \in Position(v, "enabled") :
                  \A j \in Position(v, "joinCreation") \cup Position(v, "run") : k < j
           /\ (/\ v.enabled = "true"
               /\ Count(v.log, "joinCreation") = 1
               /\ gate = "resolved") => Runs(v) = 1

\* an instance that was suspended on the pending gate, became disabled
\* meanwhile, and has been run
C18_Witness ==
    \E i \in DOMAIN invocations :
        /\ invocations[i].enabled = "true"
        /\ invocations[i].enabledNow = "false"
        /\ Ev("joinCreation", "pending", "-") \in
               {invocations[i].log[k] : k \in DOMAIN invocations[i].log}
        /\ Runs(invocations[i]) = 1

----------------------------------------------------------------------------
(* Properties of the registrar *)

TitlesFor(titles, id) == {t \in titles : t.id = id}
ItemsFor(items, id) == {m \in items : m.id = id}
Registration(h) == [id |-> handles[h].d.id, reg |-> h]

\* the command of every handle not yet disposed is in the command table
C9_Executable ==
    \A h \in DOMAIN handles : ~handles[h].disposed => Registration(h) \in commands

\* the step is a register call that returned a handle
Returned == Len(handles') = Len(handles) + 1 /\ registerResult' = "returned"

\* what a register call that returned a handle has done to the tables
C9_RegisterStep ==
    Returned =>
        LET h == Len(handles')
            d == handles'[h].d
            r == [id |-> d.id, reg |-> h]
        IN /\ r \in commands'
           /\ IF d.label # ""
              THEN /\ \E t \in commandTitles' : t.id = d.id /\ t.value = d.label
                   /\ r \in paletteItems'
              ELSE /\ commandTitles' = commandTitles
                   /\ paletteItems' = paletteItems
                   /\ ItemsFor(paletteItems', d.id) = {}

\* C9 (amended): register publishes a command title and appends a palette
\* entry if and only if descriptor.label is non-empty; in both cases the
\* command is in the command table until the handle is disposed; with an empty
\* label the call publishes no title and no palette entry for the id exists
\* afterwards.
C9_LabelDecidesPaletteEntry == [][C9_RegisterStep /\ C9_Executable']_vars

\* a live registration without a label next to a live one with a label
C9_Witness ==
    \E h1, h2 \in DOMAIN handles :
        /\ ~handles[h1].disposed /\ handles[h1].d.label = ""
        /\ handles[h1].result = "returned" /\ handles[h2].result = "returned"
        /\ ItemsFor(paletteItems, handles[h1].d.id) = {}
        /\ ~handles[h2].disposed /\ handles[h2].d.label # ""
        /\ Registration(h2) \in paletteItems

\* C9 as stated: while a registration without a label is live, neither a
\* command title nor a palette entry exists for its id.
C9_NoTitleWithoutLabel ==
    \A h \in DOMAIN handles :
        (/\ handles[h].result = "returned"
         /\ ~handles[h].disposed
         /\ handles[h].d.label = "") =>
            /\ TitlesFor(commandTitles, handles[h].d.id) = {}
            /\ ItemsFor(paletteItems, handles[h].d.id) = {}

\* C10 (amended): after the handle of a registration with a label is disposed,
\* the palette entry it appended is gone, while a command title for the id is
\* still published.
C10_DisposeRemovesPaletteEntry ==
    \A h \in DOMAIN handles :
        (handles[h].disposed /\ handles[h].d.label # "") =>
            /\ Registration(h) \notin paletteItems
            /\ TitlesFor(commandTitles, handles[h].d.id) # {}

C10_Witness ==
    \E h \in DOMAIN handles : handles[h].disposed /\ handles[h].d.label # ""

\* C10 as stated: once the handle is disposed (and the id has not been
\* registered again) neither a palette entry nor a command title is left for
\* the id.
C10_DisposeRemovesEntryAndTitle ==
    \A h \in DOMAIN handles :
        (/\ handles[h].disposed
         /\ handles[h].d.label # ""
         /\ ~CommandExists(commands, handles[h].d.id)) =>
            /\ ItemsFor(paletteItems, handles[h].d.id) = {}
            /\ TitlesFor(commandTitles, handles[h].d.id) = {}

\* the register calls up to h that installed their keybinding rule
WithRule(h) == {g \in 1..h : handles[g].result # "registerKeybindingRuleError"}
RuleIndex(h) == Cardinality(WithRule(h))

\* C11: the keybinding rule a register call installed is in the keybinding
\* rule table whatever was disposed since: each rule installed is at its place
\* in the table, whether the handle of its call was disposed or not.
C11_KeybindingRuleSurvivesDispose ==
    /\ Len(keybindingRules) = RuleIndex(Len(handles))
    /\ \A h \in WithRule(Len(handles)) :
           keybindingRules[RuleIndex(h)].id = handles[h].d.id

\* both handles were disposed and both rules are still installed
C11_Witness ==
    /\ Len(handles) = 2
    /\ \A h \in DOMAIN handles : handles[h].disposed
    /\ Len(keybindingRules) = 2

ChordFields == {"primary", "secondary", "win", "mac", "linux"}

\* rule r is the rule of descriptor d
RuleOf(r, d) ==
    /\ r.id = d.id
    /\ d.keybindingWeight # <<>> => r.weight = d.keybindingWeight[1]
    /\ d.keybindingWeight = <<>> => r.weight = WorkbenchContrib
    /\ r.when = d.keybindingContext
    /\ \A f \in ChordFields :
           r[f] = IF d.keybindings # <<>> THEN d.keybindings[1][f] ELSE "undefined"

\* what a register call that got past registerKeybindingRule has done to the
\* keybinding rule table
C14_RegisterStep ==
    (/\ Len(handles') = Len(handles) + 1
     /\ handles'[Len(handles')].result # "registerKeybindingRuleError") =>
        /\ Len(keybindingRules') = Len(keybindingRules) + 1
        /\ SubSeq(keybindingRules', 1, Len(keybindingRules)) = keybindingRules
        /\ RuleOf(keybindingRules'[Len(keybindingRules')], handles'[Len(handles')].d)

C16_DuplicateRegisterStep ==
    \A d \in Descriptors, alias \in Aliases, category \in Categories :
        (CommandExists(commands, d.id)
         /\ registerWorkbenchAction(d, alias, category, "none")) =>
            /\ registerResult' = "CommandExists"
            /\ UNCHANGED <<commands, keybindingRules, commandTitles,
                           paletteItems, handles>>

\* C16: when the command table already holds a command with descriptor.id,
\* register fails to its caller at the command registration, is not retried,
\* returns no handle, and leaves the keybinding rule table and the
\* menu/command-title table unchanged.
C16_DuplicateLeavesTablesUnchanged == [][C16_DuplicateRegisterStep]_vars

\* one command was registered and a second register call for it has failed
C16_Witness ==
    /\ registerResult = "CommandExists"
    /\ Len(handles) = 1 /\ Len(keybindingRules) = 1
    /\ Cardinality(commands) = 1

\* a register call in which a registry call after registerCommand throws
C19_FailedRegisterStep ==
    \A d \in Descriptors, alias \in Aliases, category \in Categories,
       fault \in RegisterFaults \ {"none"} :
        (/\ ~CommandExists(commands, d.id)
         /\ fault # "registerKeybindingRule" => d.label # ""
         /\ registerWorkbenchAction(d, alias, category, fault)) =>
            LET h == Len(handles) + 1
                ruleKept == /\ Len(keybindingRules') = Len(keybindingRules) + 1
                            /\ keybindingRules'[Len(keybindingRules')].id = d.id
            IN /\ registerResult' \notin {"none", "returned", "CommandExists"}
               /\ [id |-> d.id, reg |-> h] \in commands'
               /\ Len(handles') = h /\ handles'[h].result = registerResult'
               /\ fault = "registerKeybindingRule" =>
                      /\ keybindingRules' = keybindingRules
                      /\ commandTitles' = commandTitles
                      /\ paletteItems' = paletteItems
               /\ fault = "addCommand" =>
                      /\ ruleKept
                      /\ commandTitles' = commandTitles
                      /\ paletteItems' = paletteItems
               /\ fault = "appendMenuItem" =>
                      /\ ruleKept
                      /\ TitlesFor(commandTitles', d.id) # {}
                      /\ paletteItems' = paletteItems

\* what a failed register call left behind stays: nothing was returned that
\* could remove it
C19_LeftBehindStays ==
    \A h \in DOMAIN handles :
        handles[h].result # "returned" =>
            /\ ~handles[h].disposed
            /\ Registration(h) \in commands
            /\ handles[h].result = "appendMenuItemError" =>
                   /\ keybindingRules[RuleIndex(h)].id = handles[h].d.id
                   /\ TitlesFor(commandTitles, handles[h].d.id) # {}

\* C19: register does not roll back.  When the keybinding rule registration
\* or a menu registration throws after the command was registered, the
\* command is and stays in the command table (after a failed menu append so do
\* the keybinding rule and the command title), and the caller gets the error
\* and no handle.
C19_NoRollback == [][C19_FailedRegisterStep]_vars /\ []C19_LeftBehindStays

\* a register call failed at the menu append, and a later call returned
C19_Witness ==
    /\ Len(handles) = 2
    /\ handles[1].result = "appendMenuItemError"
    /\ handles[2].result = "returned"
    /\ Registration(1) \in commands
    /\ keybindingRules[1].id = handles[1].d.id
    /\ TitlesFor(commandTitles, handles[1].d.id) # {}
    /\ ItemsFor(paletteItems, handles[1].d.id) = {}

\* every register call for identifier id that registered its command returned
\* a handle that has been disposed
AllDisposed(id) ==
    \A g \in DOMAIN handles : handles[g].d.id = id => handles[g].disposed

\* C20: disposing the handle register returned unregisters the command: the
\* registration is gone from the command table, and the identifier is not
\* executable any more unless it was registered again, while the keybinding
\* rule of the disposed registration is still installed for that identifier.
C20_DisposeUnregistersCommandOnly ==
    \A h \in DOMAIN handles :
        handles[h].disposed =>
            /\ Registration(h) \notin commands
            /\ AllDisposed(handles[h].d.id) =>
                   ~CommandExists(commands, handles[h].d.id)
            /\ keybindingRules[RuleIndex(h)].id = handles[h].d.id

\* a keybinding rule left for an identifier that no command has any more
C20_Witness ==
    \E h \in DOMAIN handles :
        /\ handles[h].disposed
        /\ handles[h].d.keybindings # <<>>
        /\ ~CommandExists(commands, handles[h].d.id)
        /\ \E k \in DOMAIN keybindingRules :
               /\ keybindingRules[k].id = handles[h].d.id
               /\ keybindingRules[k].primary = "Ctrl+K"

====
